---- MODULE Spec2Model ----
(***************************************************************************)
(* Model of parser/class_parser.go: NewClassDiagram (parsePackage,         *)
(* parseFileDeclarations, the interface-satisfaction pass) and Render.     *)
(*                                                                         *)
(* Text.  A line of text is the sequence of its pieces: an identifier, a   *)
(* punctuation mark, a blank or the tab constant is one piece.  A text     *)
(* that Render builds is the sequence of its lines, that is, what          *)
(* strings.Split(text, "\n") returns: the empty string is one empty line,  *)
(* "\n" is two empty lines.  An identifier never holds a "." and never     *)
(* starts with "*", so strings.Contains(c, "."), strings.SplitN(s, ".", 2) *)
(* and the test theType[0] == '*' are decided on pieces.  A map key        *)
(* (package name, type name) is the single piece of its text.              *)
(*                                                                         *)
(* The first byte of a member name, which Render reads as name[0], is the  *)
(* first byte of the UTF-8 encoding of the name's first character.         *)
(***************************************************************************)
EXTENDS Integers, Sequences, FiniteSets, TLC

VARIABLES
    structure,           \* ClassParser.structure: package -> type name -> Struct
    currentPackageName,  \* ClassParser.currentPackageName ("" before the first package)
    allInterfaces,       \* ClassParser.allInterfaces: set of full names
    allStructs,          \* ClassParser.allStructs: set of full names
    pc,                  \* "build", "error", "panic", "built", "rendered"
    nDecls,              \* declarations that changed the structure so far
    out                  \* text returned by the last call of Render (<<>> before it)

vars == <<structure, currentPackageName, allInterfaces, allStructs, pc, nDecls, out>>

\* Number of declarations of the input directory that change the structure (struct
\* types, interface types, methods); the declarations that are skipped are not counted.
MaxDecls == 3

----------------------------------------------------------------------------
(* Generic helpers on sequences and maps *)

EmptyMap == [k \in {} |-> {}]

Put(m, k, v) == [x \in (DOMAIN m) \cup {k} |-> IF x = k THEN v ELSE m[x]]

Range(s) == {s[i] : i \in DOMAIN s}

\* All orders in which a Go `range` over a map with key set S can visit the keys.
RECURSIVE Orders(_)
Orders(S) ==
    IF S = {} THEN {<<>>}
    ELSE UNION {{<<k>> \o o : o \in Orders(S \ {k})} : k \in S}

\* strings.Repeat(piece, n)
Repeat(piece, n) == [i \in 1..n |-> piece]

\* strings.Join(texts, sep)
RECURSIVE Join(_, _)
Join(texts, sep) ==
    IF texts = <<>> THEN <<>>
    ELSE IF Len(texts) = 1 THEN texts[1]
    ELSE texts[1] \o <<sep>> \o Join(Tail(texts), sep)

\* strings.Contains(text, piece)
Contains(text, piece) == \E i \in DOMAIN text : text[i] = piece

\* strings.HasSuffix(text, piece)
HasSuffix(text, piece) == Len(text) > 0 /\ text[Len(text)] = piece

\* strings.SplitN(text, ".", 2): the text before the first "." and the text after it
\* (one element when there is no ".")
SplitN2(text) ==
    IF ~Contains(text, ".") THEN <<text>>
    ELSE LET i == CHOOSE j \in DOMAIN text :
                      text[j] = "." /\ \A k \in 1..(j - 1) : text[k] # "."
         IN  <<SubSeq(text, 1, i - 1), SubSeq(text, i + 1, Len(text))>>

\* fmt.Sprintf("%s.%s", pack, name)
FullName(pack, name) == <<pack, ".", name>>

----------------------------------------------------------------------------
(* Input: the parsed declarations (go/ast nodes) *)

PackageNames == {"pkg", "lib"}
TypeNames == {"Dog", "Speaker"}

\* File names of a package: a source file and a test file.
FileNames == {<<"dog", ".go">>, <<"dog", "_test.go">>}

\* First character (Unicode code point) of each member name of the input.
\* "\\u00e9t" is the identifier e-acute t, "\\u1e00b" is A-with-ring-below b.
FirstRune(name) ==
    CASE name = "bar"      -> 98
      [] name = "Baz"      -> 66
      [] name = "_x"       -> 95
      [] name = "\\u00e9t" -> 233
      [] name = "Speak"    -> 83
      [] name = "run"      -> 114
      [] name = "\\u1e00b" -> 7680

NamedField(name, type) == [Names |-> <<name>>, Type |-> type]
EmbeddedField(type) == [Names |-> <<>>, Type |-> type]

\* struct { Baz string; bar string; Engine; _x int }
BodyA ==
    << NamedField("Baz", <<"string">>), NamedField("bar", <<"string">>),
       EmbeddedField(<<"Engine">>), NamedField("_x", <<"int">>) >>

\* struct { lib.Engine; <e-acute>t string; <A-with-ring-below>b int }
BodyB ==
    << EmbeddedField(<<"lib", ".", "Engine">>), NamedField("\\u00e9t", <<"string">>),
       NamedField("\\u1e00b", <<"int">>) >>

FuncType(params, results) == [Params |-> params, Results |-> results]
Param(name, type) == [Name |-> name, Type |-> type]

\* func() string, func(), func(count int) (int, error)
SigString == FuncType(<<>>, << <<"string">> >>)
SigNone == FuncType(<<>>, <<>>)
SigWork == FuncType(<<Param("count", <<"int">>)>>, << <<"int">>, <<"error">> >>)

MethodField(name, sig) == [Names |-> <<name>>, Type |-> sig]

\* interface { Speak() string }
Speaks == << MethodField("Speak", SigString) >>

\* interface { run(count int) (int, error); Speak() string }
Works == << MethodField("run", SigWork), MethodField("Speak", SigString) >>

\* type name struct {...}, type name interface {...}
TypeDecl(name, node, list) ==
    [node |-> "GenDecl",
     Specs |-> <<[node |-> "TypeSpec", Name |-> name,
                  Type |-> [node |-> node, List |-> list]]>>]

\* func (recv) name sig, with recv the type expression T or *T
MethodDecl(star, ident, name, sig) ==
    [node |-> "FuncDecl", Recv |-> <<[Star |-> star, Ident |-> ident]>>,
     Name |-> name, Type |-> sig]

\* The struct and interface type declarations of the input
TypeDecls ==
    { TypeDecl("Dog", "StructType", BodyA),
      TypeDecl("Dog", "StructType", BodyB),
      TypeDecl("Dog", "InterfaceType", Speaks),
      TypeDecl("Speaker", "InterfaceType", Speaks),
      TypeDecl("Speaker", "InterfaceType", Works) }

\* The methods of the input: on *Dog and on Speaker
MethodDecls ==
    { MethodDecl(TRUE, "Dog", "Speak", SigString),
      MethodDecl(TRUE, "Dog", "Speak", SigNone),
      MethodDecl(TRUE, "Dog", "run", SigWork),
      MethodDecl(FALSE, "Speaker", "Speak", SigString) }

\* `type Dog int`, `import "fmt"`, a function without receiver, and a declaration
\* group with nothing in it: `var ()`
OtherDecls ==
    { TypeDecl("Dog", "Ident", <<>>),
      [node |-> "GenDecl", Specs |-> <<[node |-> "ImportSpec"]>>],
      [node |-> "FuncDecl", Recv |-> <<>>, Name |-> "run", Type |-> SigNone],
      [node |-> "GenDecl", Specs |-> <<>>] }

Decls == TypeDecls \cup MethodDecls \cup OtherDecls

\* The declarations of the second package, lib: a struct, an interface and a method
LibDecls ==
    { TypeDecl("Dog", "StructType", BodyB),
      TypeDecl("Speaker", "InterfaceType", Speaks),
      MethodDecl(TRUE, "Dog", "Speak", SigString) }

\* The declarations of the files of package pack
DeclsOf(pack) == IF pack = "lib" THEN LibDecls ELSE Decls

----------------------------------------------------------------------------
(* Struct and its methods *)

\* getOrCreateStruct's fresh Struct
NewStruct(pack) ==
    [PackageName |-> pack, Functions |-> <<>>, Fields |-> <<>>, Type |-> "",
     Composition |-> <<>>, Extends |-> <<>>]

\* Struct.AddField: a named field joins Fields, an embedded one joins Composition.
AddField(st, f) ==
    IF f.Names # <<>>
    THEN [st EXCEPT !.Fields = Append(@, [Name |-> f.Names[1], Type |-> f.Type])]
    ELSE [st EXCEPT !.Composition = Append(@, f.Type)]

\* Struct.AddMethod
AddMethod(st, f) ==
    [st EXCEPT !.Functions =
        Append(@, [Name |-> f.Names[1], Parameters |-> f.Type.Params,
                   ReturnValues |-> f.Type.Results])]

ParameterTypes(fn) == [i \in DOMAIN fn.Parameters |-> fn.Parameters[i].Type]

\* Struct.ImplementsInterface: every method of inter has a method of st with the same
\* name, the same ordered parameter types and the same ordered return types.
ImplementsInterface(st, inter) ==
    \A i \in DOMAIN inter.Functions :
        \E j \in DOMAIN st.Functions :
            /\ st.Functions[j].Name = inter.Functions[i].Name
            /\ ParameterTypes(st.Functions[j]) = ParameterTypes(inter.Functions[i])
            /\ st.Functions[j].ReturnValues = inter.Functions[i].ReturnValues

\* Struct.AddToExtends
AddToExtends(st, i) == [st EXCEPT !.Extends = Append(@, i)]

\* getFieldType of a receiver type expression: "T" or "*T"
getFieldType(expr) == IF expr.Star THEN <<"*", expr.Ident>> ELSE <<expr.Ident>>

----------------------------------------------------------------------------
(* ClassParser: building *)

\* getOrCreateStruct, as the pair of the map after the call and the Struct returned
getOrCreateStruct(s, pack, name) ==
    IF name \in DOMAIN s[pack] THEN s
    ELSE [s EXCEPT ![pack] = Put(@, name, NewStruct(pack))]

\* getStruct: the Struct of a full name, or "nil"
getStruct(s, structName) ==
    LET split == SplitN2(structName)
    IN  IF split[1][1] \notin DOMAIN s THEN "nil"
        ELSE IF split[2][1] \notin DOMAIN s[split[1][1]] THEN "nil"
        ELSE s[split[1][1]][split[2][1]]

\* The loop `for _, f := range list { p.getOrCreateStruct(typeName).Add(f) }`
RECURSIVE AddFields(_, _, _, _)
AddFields(s, pack, name, list) ==
    IF list = <<>> THEN s
    ELSE LET s1 == getOrCreateStruct(s, pack, name)
         IN  AddFields([s1 EXCEPT ![pack][name] = AddField(@, Head(list))],
                       pack, name, Tail(list))

RECURSIVE AddMethods(_, _, _, _)
AddMethods(s, pack, name, list) ==
    IF list = <<>> THEN s
    ELSE LET s1 == getOrCreateStruct(s, pack, name)
         IN  AddMethods([s1 EXCEPT ![pack][name] = AddMethod(@, Head(list))],
                        pack, name, Tail(list))

\* The kind a type declaration writes into Struct.Type (line 128)
DeclaredType(old, declarationType) == declarationType

\* MethodType without its test of the old kind
MethodTypeOverwrite(old) == "class"

\* The kind a receiver method leaves in Struct.Type (lines 147-149)
MethodType(old) == IF old = "" THEN "class" ELSE old

\* NewClassDiagram: parser.ParseDir fails and the error is returned.
ParseFail ==
    /\ pc = "build" /\ currentPackageName = "" /\ nDecls = 0
    /\ pc' = "error"
    /\ UNCHANGED <<structure, currentPackageName, allInterfaces, allStructs, nDecls, out>>

\* parsePackage up to its loop over the files.
ParsePackage(pack) ==
    /\ pc = "build"
    /\ pack \notin DOMAIN structure
    /\ currentPackageName' = pack
    /\ structure' = IF pack \notin DOMAIN structure
                    THEN Put(structure, pack, EmptyMap) ELSE structure
    /\ UNCHANGED <<allInterfaces, allStructs, pc, nDecls, out>>

\* The GenDecl case of parseFileDeclarations.
ParseGenDecl(decl) ==
    IF Len(decl.Specs) = 0
    THEN \* decl.Specs[0]: index out of range
         /\ pc' = "panic"
         /\ UNCHANGED <<structure, allInterfaces, allStructs>>
    ELSE LET spec == decl.Specs[1]
             pack == currentPackageName
         IN  IF spec.node # "TypeSpec" \/ spec.Type.node \notin {"StructType", "InterfaceType"}
             THEN UNCHANGED <<structure, allInterfaces, allStructs, pc>>
             ELSE LET typeName == spec.Name
                      declarationType ==
                          IF spec.Type.node = "StructType" THEN "class" ELSE "interface"
                      s1 == IF spec.Type.node = "StructType"
                            THEN AddFields(structure, pack, typeName, spec.Type.List)
                            ELSE AddMethods(structure, pack, typeName, spec.Type.List)
                      s2 == getOrCreateStruct(s1, pack, typeName)
                      fullName == FullName(pack, typeName)
                  IN  /\ structure' =
                            [s2 EXCEPT ![pack][typeName].Type =
                                DeclaredType(@, declarationType)]
                      /\ allInterfaces' = IF declarationType = "interface"
                                          THEN allInterfaces \cup {fullName}
                                          ELSE allInterfaces
                      /\ allStructs' = IF declarationType = "class"
                                       THEN allStructs \cup {fullName}
                                       ELSE allStructs
                      /\ UNCHANGED pc

\* The FuncDecl case of parseFileDeclarations.
ParseFuncDecl(decl) ==
    IF decl.Recv = <<>>
    THEN UNCHANGED <<structure, allInterfaces, allStructs, pc>>
    ELSE LET t0 == getFieldType(decl.Recv[1])
             theType == IF Head(t0) = "*" THEN Tail(t0) ELSE t0
             pack == currentPackageName
             s1 == getOrCreateStruct(structure, pack, theType[1])
             s2 == [s1 EXCEPT ![pack][theType[1]].Type = MethodType(@)]
         IN  /\ structure' =
                    [s2 EXCEPT ![pack][theType[1]] =
                        AddMethod(@, [Names |-> <<decl.Name>>, Type |-> decl.Type])]
             /\ UNCHANGED <<allInterfaces, allStructs, pc>>

\* One turn of parsePackage's loops: declaration decl of file fileName.
ParseFileDeclarations(fileName, decl) ==
    /\ pc = "build"
    /\ currentPackageName # ""
    /\ nDecls < MaxDecls
    /\ IF HasSuffix(fileName, "_test.go")
       THEN UNCHANGED <<structure, allInterfaces, allStructs, pc>>
       ELSE IF decl.node = "GenDecl" THEN ParseGenDecl(decl) ELSE ParseFuncDecl(decl)
    /\ nDecls' = IF structure' # structure THEN nDecls + 1 ELSE nDecls
    /\ UNCHANGED <<currentPackageName, out>>

\* The Extends of st after NewClassDiagram's loop over allInterfaces, visited in order.
RECURSIVE ExtendAll(_, _, _)
ExtendAll(s, st, order) ==
    IF order = <<>> THEN st
    ELSE LET inter == getStruct(s, Head(order))
             st1 == IF ImplementsInterface(st, inter)
                    THEN AddToExtends(st, Head(order)) ELSE st
         IN  ExtendAll(s, st1, Tail(order))

\* NewClassDiagram after the packages: the loops over allStructs and allInterfaces.
\* The order in which each struct meets the interfaces is that of its own `range`
\* over the map allInterfaces.
Resolve ==
    /\ pc = "build"
    /\ \E order \in [allStructs -> Orders(allInterfaces)] :
          structure' =
              [p \in DOMAIN structure |->
                  [n \in DOMAIN structure[p] |->
                      IF FullName(p, n) \in allStructs
                      THEN ExtendAll(structure, structure[p][n], order[FullName(p, n)])
                      ELSE structure[p][n]]]
    /\ pc' = "built"
    /\ UNCHANGED <<currentPackageName, allInterfaces, allStructs, nDecls, out>>

----------------------------------------------------------------------------
(* LineStringBuilder and Render *)

tab == "    "

\* The empty string, the string of one line, and "\n"
EmptyText == << <<>> >>
Str(line) == <<line>>
NewLine == << <<>>, <<>> >>

\* strings.Builder.WriteString: text a followed by text b
Cat(a, b) == SubSeq(a, 1, Len(a) - 1) \o << a[Len(a)] \o b[1] >> \o Tail(b)

RECURSIVE CatAll(_)
CatAll(texts) == IF texts = <<>> THEN EmptyText ELSE Cat(Head(texts), CatAll(Tail(texts)))

\* LineStringBuilder.WriteLineWithDepth: the builder's text after the call, that is
\* Cat(Cat(Cat(lsb, Str(Repeat(tab, depth))), str), NewLine)
WriteLineWithDepth(lsb, depth, str) ==
    SubSeq(lsb, 1, Len(lsb) - 1)
        \o << lsb[Len(lsb)] \o Repeat(tab, depth) \o str[1] >>
        \o Tail(str) \o << <<>> >>

\* UTF-8: the first byte of the encoding of code point r
Utf8FirstByte(r) ==
    IF r < 128 THEN r
    ELSE IF r < 2048 THEN 192 + (r \div 64)
    ELSE IF r < 65536 THEN 224 + (r \div 4096)
    ELSE 240 + (r \div 262144)

\* unicode.IsLower on the code points the model uses: Latin-1 and Latin Extended
\* Additional U+1E00..U+1E95, where upper (even) and lower (odd) alternate
IsLower(r) ==
    \/ r \in 97..122
    \/ r = 181
    \/ r \in 223..246
    \/ r \in 248..255
    \/ (r \in 7680..7829 /\ r % 2 = 1)

\* unicode.IsUpper on the same code points
IsUpper(r) ==
    \/ r \in 65..90
    \/ r \in 192..214
    \/ r \in 216..222
    \/ (r \in 7680..7829 /\ r % 2 = 0)

\* rune(name[0]): the first byte of the name, taken as a code point
FirstByteRune(name) == Utf8FirstByte(FirstRune(name))

\* accessModifier that tests for an upper-case letter instead
accessModifierByUpper(name) == IF IsUpper(FirstByteRune(name)) THEN "+" ELSE "-"

\* accessModifier of a field or method name (lines 178-181 and 201-204)
accessModifier(name) == IF IsLower(FirstByteRune(name)) THEN "-" ELSE "+"

\* fmt.Sprintf(`%s %s %s`, accessModifier, field.Name, field.Type)
FieldLine(field) == <<accessModifier(field.Name), " ", field.Name, " ">> \o field.Type

\* returnValues of a method (lines 209-212)
returnValues(method) ==
    IF Len(method.ReturnValues) > 1
    THEN <<"(">> \o Join(method.ReturnValues, ", ") \o <<")">>
    ELSE <<>>

\* parameterList of a method (lines 205-208)
parameterList(method) ==
    [i \in DOMAIN method.Parameters |->
        <<method.Parameters[i].Name, " ">> \o method.Parameters[i].Type]

\* fmt.Sprintf(`%s %s(%s) %s`, accessModifier, method.Name, parameters, returnValues)
MethodLine(method) ==
    <<accessModifier(method.Name), " ", method.Name, "(">>
        \o Join(parameterList(method), ", ") \o <<")", " ">> \o returnValues(method)

\* EdgeSource that never qualifies
EdgeSourceAsWritten(st, c) == c

\* The source of an edge: c, qualified with the Struct's package when it has no "."
EdgeSource(st, c) == IF ~Contains(c, ".") THEN <<st.PackageName, ".">> \o c ELSE c

\* fmt.Sprintf(`%s *-- %s.%s`, c, pack, name) and fmt.Sprintf(`%s <|-- %s.%s`, ...)
EdgeLine(st, c, arrow, pack, name) ==
    EdgeSource(st, c) \o <<" ", arrow, " ", pack, ".", name>>

\* The four member groups of a Struct, each the text of its builder
privateFields(st) ==
    CatAll([i \in DOMAIN st.Fields |->
        IF accessModifier(st.Fields[i].Name) = "-"
        THEN WriteLineWithDepth(EmptyText, 2, Str(FieldLine(st.Fields[i])))
        ELSE EmptyText])

publicFields(st) ==
    CatAll([i \in DOMAIN st.Fields |->
        IF accessModifier(st.Fields[i].Name) = "-"
        THEN EmptyText
        ELSE WriteLineWithDepth(EmptyText, 2, Str(FieldLine(st.Fields[i])))])

privateMethods(st) ==
    CatAll([i \in DOMAIN st.Functions |->
        IF accessModifier(st.Functions[i].Name) = "-"
        THEN WriteLineWithDepth(EmptyText, 2, Str(MethodLine(st.Functions[i])))
        ELSE EmptyText])

publicMethods(st) ==
    CatAll([i \in DOMAIN st.Functions |->
        IF accessModifier(st.Functions[i].Name) = "-"
        THEN EmptyText
        ELSE WriteLineWithDepth(EmptyText, 2, Str(MethodLine(st.Functions[i])))])

\* `if b.Len() > 0 { str.WriteLineWithDepth(0, b.String()) }`
WriteGroup(group) ==
    IF group # EmptyText THEN WriteLineWithDepth(EmptyText, 0, group) ELSE EmptyText

\* GroupsText with the public group of the fields and of the methods written first
GroupsTextPublicFirst(st) ==
    CatAll(<<WriteGroup(publicFields(st)), WriteGroup(privateFields(st)),
             WriteGroup(publicMethods(st)), WriteGroup(privateMethods(st))>>)

\* The order in which the body of one type writes its groups (lines 219-230)
GroupsText(st) ==
    CatAll(<<WriteGroup(privateFields(st)), WriteGroup(publicFields(st)),
             WriteGroup(privateMethods(st)), WriteGroup(publicMethods(st))>>)

\* What one turn of the loop over a package's types appends to str (lines 176-231)
StructText(name, st) ==
    CatAll(<<WriteLineWithDepth(EmptyText, 1, Str(<<st.Type, " ", name, " ", "{">>)),
             GroupsText(st),
             WriteLineWithDepth(EmptyText, 1, Str(<<"}">>))>>)

\* What the same turn appends to the package's composition builder (lines 188-193)
CompositionText(pack, name, st) ==
    CatAll([i \in DOMAIN st.Composition |->
        WriteLineWithDepth(EmptyText, 0,
            Str(EdgeLine(st, st.Composition[i], "*--", pack, name)))])

\* What the same turn appends to the package's extends builder (lines 194-199)
ExtendsText(pack, name, st) ==
    CatAll([i \in DOMAIN st.Extends |->
        WriteLineWithDepth(EmptyText, 0,
            Str(EdgeLine(st, st.Extends[i], "<|--", pack, name)))])

\* One turn of the loop over the packages, its types visited in order tOrder
PackageText(s, pack, tOrder) ==
    IF Cardinality(DOMAIN s[pack]) > 0
    THEN CatAll(<<
            WriteLineWithDepth(EmptyText, 0, Str(<<"namespace", " ", pack, " ", "{">>)),
            CatAll([i \in DOMAIN tOrder |-> StructText(tOrder[i], s[pack][tOrder[i]])]),
            WriteLineWithDepth(EmptyText, 0, Str(<<"}">>)),
            WriteLineWithDepth(EmptyText, 0,
                CatAll([i \in DOMAIN tOrder |->
                    CompositionText(pack, tOrder[i], s[pack][tOrder[i]])])),
            WriteLineWithDepth(EmptyText, 0,
                CatAll([i \in DOMAIN tOrder |->
                    ExtendsText(pack, tOrder[i], s[pack][tOrder[i]])])) >>)
    ELSE EmptyText

\* Footer on a line after a blank line
FooterAfterBlankLine == Cat(NewLine, Str(<<"@enduml">>))

\* What Render writes after the packages (line 239)
Footer == Str(<<"@enduml">>)

\* Render's text, the packages visited in order pOrder and the types of package p
\* in order tOrders[p]
RenderText(s, pOrder, tOrders) ==
    CatAll(<<WriteLineWithDepth(EmptyText, 0, Str(<<"@startuml">>)),
             CatAll([i \in DOMAIN pOrder |->
                 PackageText(s, pOrder[i], tOrders[pOrder[i]])]),
             Footer>>)

\* The orders in which the two nested `range` loops of Render can visit the maps
TypeOrders(s) ==
    {f \in [DOMAIN s -> UNION {Orders(DOMAIN s[p]) : p \in DOMAIN s}] :
        \A p \in DOMAIN s : f[p] \in Orders(DOMAIN s[p])}

\* Render, called on the ClassParser that NewClassDiagram returned
Render ==
    /\ pc \in {"built", "rendered"}
    /\ \E pOrder \in Orders(DOMAIN structure), tOrders \in TypeOrders(structure) :
          out' = RenderText(structure, pOrder, tOrders)
    /\ pc' = "rendered"
    /\ UNCHANGED <<structure, currentPackageName, allInterfaces, allStructs, nDecls>>

Init ==
    /\ structure = EmptyMap
    /\ currentPackageName = ""
    /\ allInterfaces = {}
    /\ allStructs = {}
    /\ pc = "build"
    /\ nDecls = 0
    /\ out = <<>>

Next ==
    \/ ParseFail
    \/ \E pack \in PackageNames : ParsePackage(pack)
    \/ \E fileName \in FileNames, decl \in DeclsOf(currentPackageName) :
          ParseFileDeclarations(fileName, decl)
    \/ Resolve
    \/ Render

Spec == Init /\ [][Next]_vars

----------------------------------------------------------------------------
(* Reading Render's text back *)

RECURSIVE Flatten(_)
Flatten(ss) == IF ss = <<>> THEN <<>> ELSE Head(ss) \o Flatten(Tail(ss))

Count(seq, x) == Cardinality({i \in DOMAIN seq : seq[i] = x})

\* The Structs of the model, as <<package, name>> pairs
Entities == UNION {{<<p, n>> : n \in DOMAIN structure[p]} : p \in DOMAIN structure}

\* The kind of type n of package p in map s, Unset ("") while it does not exist
KindOf(s, p, n) == IF p \in DOMAIN s /\ n \in DOMAIN s[p] THEN s[p][n].Type ELSE ""

\* A member line of the text: two tabs, marker, blank, name, ...
IsMemberLine(l) == Len(l) >= 5 /\ l[1] = tab /\ l[2] = tab /\ l[4] = " "

MemberLines == {l \in Range(out) : IsMemberLine(l)}

----------------------------------------------------------------------------
(* C1 *)

\* C1 (as claimed): the kind of a TypeEntity, once it is Record or Interface, never
\* changes again: a later declaration of the same name keeps the first-assigned kind.
C1_KindAssignedOnce ==
    [][\A p \in PackageNames, n \in TypeNames :
          /\ KindOf(structure', p, n) \in {"", "class", "interface"}
          /\ KindOf(structure, p, n) # ""
                => KindOf(structure', p, n) = KindOf(structure, p, n)]_vars

\* C1 (amended): a kind never returns to Unset, and a kind that is set changes only
\* when a struct or interface type declaration of the same name is processed, to the
\* kind of that declaration; a receiver method sets the kind only when it is Unset.
C1_KindChangesOnlyByTypeDecl ==
    [][\A p \in PackageNames, n \in TypeNames :
          LET k == KindOf(structure, p, n)
              k2 == KindOf(structure', p, n)
          IN  /\ k2 \in {"", "class", "interface"}
              /\ k # "" => k2 # ""
              /\ (k # "" /\ k2 # k) =>
                    \E fileName \in FileNames, d \in TypeDecls :
                        /\ ParseFileDeclarations(fileName, d)
                        /\ ~HasSuffix(fileName, "_test.go")
                        /\ currentPackageName = p
                        /\ d.Specs[1].Name = n
                        /\ k2 = IF d.Specs[1].Type.node = "StructType"
                                THEN "class" ELSE "interface"]_vars

\* A name declared both as a struct type and as an interface type, with methods
C1_Witness ==
    \E e \in Entities :
        /\ FullName(e[1], e[2]) \in allStructs \cap allInterfaces
        /\ structure[e[1]][e[2]].Type = "interface"

----------------------------------------------------------------------------
(* C2 *)

\* The claim's own reading of "R implements I"
MethodsMatch(f, g) ==
    /\ f.Name = g.Name
    /\ [i \in DOMAIN f.Parameters |-> f.Parameters[i].Type]
          = [i \in DOMAIN g.Parameters |-> g.Parameters[i].Type]
    /\ f.ReturnValues = g.ReturnValues

\* C2: after NewClassDiagram, every Record R whose methods cover the methods of an
\* Interface I has I's full name in its extends list.
C2_ImplementedInterfacesAreExtended ==
    pc \in {"built", "rendered"} =>
        \A r \in Entities, i \in Entities :
            LET R == structure[r[1]][r[2]]
                I == structure[i[1]][i[2]]
            IN  (/\ R.Type = "class"
                 /\ I.Type = "interface"
                 /\ \A f \in Range(I.Functions) :
                        \E g \in Range(R.Functions) : MethodsMatch(f, g))
                    => FullName(i[1], i[2]) \in Range(R.Extends)

----------------------------------------------------------------------------
(* C3 *)

\* C3: building never panics; it ends in the model or in the parser's error.
C3_BuildIsTotal == pc # "panic"

----------------------------------------------------------------------------
(* C4 *)

\* C4 (as claimed): the text of a model with no namespace is three lines: the
\* opening marker, a blank line and the closing marker.
C4_EmptyModelThreeLines ==
    (pc = "rendered" /\ DOMAIN structure = {}) =>
        out = << <<"@startuml">>, <<>>, <<"@enduml">> >>

\* C4 (amended): the text of a model with no namespace is two lines, the opening
\* marker and the closing marker, with no blank line between them.
C4_EmptyModelTwoLines ==
    (pc = "rendered" /\ DOMAIN structure = {}) =>
        out = << <<"@startuml">>, <<"@enduml">> >>

\* Render has returned the text of a model with no namespace
C4_Witness == pc = "rendered" /\ DOMAIN structure = {} /\ out # <<>>

----------------------------------------------------------------------------
(* C5 *)

\* The return types of a method line as the claim prints them
ClaimedReturns(method) ==
    IF Len(method.ReturnValues) = 0 THEN <<>>
    ELSE IF Len(method.ReturnValues) = 1 THEN method.ReturnValues[1]
    ELSE <<"(">> \o Join(method.ReturnValues, ", ") \o <<")">>

\* C5: every method has a line: marker, name, parenthesised parameters, and its return
\* types: one return type bare, two or more in parentheses, none for no return value.
C5_MethodLineShowsReturnTypes ==
    pc = "rendered" =>
        \A e \in Entities :
            \A method \in Range(structure[e[1]][e[2]].Functions) :
                \E l \in MemberLines :
                    \E k \in 1..Len(l) :
                        /\ l[5] = method.Name
                        /\ l[6] = "("
                        /\ l[k] = ")"
                        /\ SubSeq(l, 7, k - 1) = Join(parameterList(method), ", ")
                        /\ \/ SubSeq(l, k + 1, Len(l)) = <<" ">> \o ClaimedReturns(method)
                           \/ /\ method.ReturnValues = <<>>
                              /\ SubSeq(l, k + 1, Len(l)) = <<>>

----------------------------------------------------------------------------
(* C6 *)

\* C6: a second Render of the same model returns the same text and leaves the model
\* unchanged.
C6_RenderIsDeterministic ==
    [][(pc = "rendered" /\ pc' = "rendered") =>
          (out' = out /\ structure' = structure)]_vars

----------------------------------------------------------------------------
(* C7 *)

\* C7: the marker of every member line is "-" exactly when the first character of
\* the member's name is a lower-case letter.
C7_PrivateIffLowerCase ==
    pc = "rendered" =>
        \A l \in MemberLines : (l[3] = "-") <=> IsLower(FirstRune(l[5]))

----------------------------------------------------------------------------
(* C8 *)

\* C8 (as claimed): the marker of every member line is "+" exactly when the first
\* character of the member's name is an upper-case letter.
C8_PublicIffUpperCase ==
    pc = "rendered" =>
        \A l \in MemberLines :
            /\ l[3] \in {"+", "-"}
            /\ (l[3] = "+") <=> IsUpper(FirstRune(l[5]))

\* C8 (amended): the marker of every member line is "+" exactly when the first byte
\* of the member's name, read as a character, is not a lower-case letter.  So a name
\* whose first character is ASCII is public unless that character is a lower-case
\* letter: a name that starts with "_" is public.
C8_PublicIffFirstByteNotLower ==
    pc = "rendered" =>
        \A l \in MemberLines :
            /\ l[3] \in {"+", "-"}
            /\ (l[3] = "+") <=> ~IsLower(Utf8FirstByte(FirstRune(l[5])))
            /\ FirstRune(l[5]) < 128 =>
                  ((l[3] = "+") <=> FirstRune(l[5]) \notin 97..122)

\* Render has emitted a member whose name starts with "_"
C8_Witness ==
    pc = "rendered" /\ \E l \in MemberLines : l[5] = "_x" /\ l[3] = "+"

----------------------------------------------------------------------------
(* C9 *)

\* The edge lines the claim expects of one Struct, for one arrow
ClaimedEdges(e, refs, arrow) ==
    [i \in DOMAIN refs |->
        (IF \E j \in DOMAIN refs[i] : refs[i][j] = "."
         THEN refs[i]
         ELSE <<structure[e[1]][e[2]].PackageName, ".">> \o refs[i])
            \o <<" ", arrow, " ", e[1], ".", e[2]>>]

RECURSIVE SumOver(_, _)
SumOver(S, arrow) ==
    IF S = {} THEN 0
    ELSE LET e == CHOOSE x \in S : TRUE
             st == structure[e[1]][e[2]]
         IN  (IF arrow = "*--" THEN Len(st.Composition) ELSE Len(st.Extends))
                + SumOver(S \ {e}, arrow)

EdgeLinesOf(lines, arrow) ==
    {i \in DOMAIN lines : \E j \in DOMAIN lines[i] : lines[i][j] = arrow}

\* C9: every entry of every composition and extends list gives exactly one edge line,
\* whose source is the entry itself when it holds a "." and the owning Struct's
\* namespace, ".", and the entry when it holds none; there are no other edge lines.
C9_EdgesAreQualified ==
    pc = "rendered" =>
        LET lines == out
        IN  /\ Cardinality(EdgeLinesOf(lines, "*--")) = SumOver(Entities, "*--")
            /\ Cardinality(EdgeLinesOf(lines, "<|--")) = SumOver(Entities, "<|--")
            /\ \A e \in Entities :
                  LET st == structure[e[1]][e[2]]
                      comp == ClaimedEdges(e, st.Composition, "*--")
                      ext == ClaimedEdges(e, st.Extends, "<|--")
                  IN  /\ \A i \in DOMAIN comp : Count(lines, comp[i]) = Count(comp, comp[i])
                      /\ \A i \in DOMAIN ext : Count(lines, ext[i]) = Count(ext, ext[i])
                      /\ \A i \in DOMAIN comp : comp[i][1] \in PackageNames /\ comp[i][2] = "."
                      /\ \A i \in DOMAIN ext : ext[i][1] \in PackageNames /\ ext[i][2] = "."

\* Render has emitted the edges of a Struct that embeds an unqualified type and
\* implements an interface
C9_Witness ==
    /\ pc = "rendered"
    /\ \E e \in Entities :
          /\ \E c \in Range(structure[e[1]][e[2]].Composition) : Len(c) = 1
          /\ structure[e[1]][e[2]].Extends # <<>>
          /\ EdgeLinesOf(out, "<|--") # {}

----------------------------------------------------------------------------
(* C10 *)

\* The lines between the declaration line of type e and its closing line
BlockOf(lines, e) ==
    LET st == structure[e[1]][e[2]]
        ns == CHOOSE i \in DOMAIN lines : lines[i] = <<"namespace", " ", e[1], " ", "{">>
        h == CHOOSE i \in DOMAIN lines :
                /\ i > ns
                /\ lines[i] = <<tab, st.Type, " ", e[2], " ", "{">>
                /\ \A j \in (ns + 1)..(i - 1) : lines[j] # lines[i]
        c == CHOOSE i \in DOMAIN lines :
                /\ i > h
                /\ lines[i] = <<tab, "}">>
                /\ \A j \in (h + 1)..(i - 1) : lines[j] # lines[i]
    IN  SubSeq(lines, h + 1, c - 1)

\* The member lines the claim expects of a Struct, in the claim's order
ClaimedMembers(st) ==
    LET IsPrivate(m) == accessModifier(m.Name) = "-"
        IsPublic(m) == accessModifier(m.Name) # "-"
        fieldLines(fs) == [i \in DOMAIN fs |-> <<tab, tab>> \o FieldLine(fs[i])]
        methodLines(ms) == [i \in DOMAIN ms |-> <<tab, tab>> \o MethodLine(ms[i])]
    IN  << fieldLines(SelectSeq(st.Fields, IsPrivate)),
           fieldLines(SelectSeq(st.Fields, IsPublic)),
           methodLines(SelectSeq(st.Functions, IsPrivate)),
           methodLines(SelectSeq(st.Functions, IsPublic)) >>

\* C10: the member lines of a type's block are its private fields, its public
\* fields, its private methods and its public methods, in that order, each group in
\* the order of Fields / Functions; an empty group writes nothing.
C10_MemberOrder ==
    pc = "rendered" =>
        \A e \in Entities :
            LET NonBlank(l) == l # <<>>
                Blank(l) == l = <<>>
                block == BlockOf(out, e)
                groups == ClaimedMembers(structure[e[1]][e[2]])
            IN  /\ SelectSeq(block, NonBlank) = Flatten(groups)
                /\ Len(SelectSeq(block, Blank))
                      = Cardinality({g \in 1..4 : groups[g] # <<>>})

\* Render has emitted a type with two public fields, a private field declared between
\* them, and a method
C10_Witness ==
    /\ pc = "rendered"
    /\ \E e \in Entities :
          LET groups == ClaimedMembers(structure[e[1]][e[2]])
          IN  /\ Len(groups[1]) >= 1
              /\ Len(groups[2]) >= 2
              /\ Len(groups[3]) + Len(groups[4]) >= 1
              /\ accessModifier(structure[e[1]][e[2]].Fields[1].Name) = "+"

====
